---- MODULE Spec2Model ----
(***************************************************************************)
(* Model of the DOM history matcher (browser_use/dom/                      *)
(* history_tree_processor.py) and of the agent history ledger              *)
(* (browser_use/agent/views.py).                                           *)
(*                                                                         *)
(* Python values are encoded as follows.                                   *)
(*   Optional[T]    the empty tuple << >> for None, <<x>> for a value x    *)
(*   str            a TLA+ string; + and join are \o                       *)
(*   dict[str,str]  a sequence of [k, v] records in iteration order        *)
(*   object refs    an attribute dict lives in heap[r]; a node and a       *)
(*                  snapshot hold the reference r, so that two holders of  *)
(*                  the same dict see each other's in-place updates        *)
(*   sha256         an injective function of its input (no collisions)     *)
(***************************************************************************)
EXTENDS Integers, Sequences, FiniteSets, TLC

VARIABLES
    tree,         \* DOMElementNode / text nodes of the current render, by node id
    heap,         \* attribute dict objects, by reference
    snap,         \* Optional[DOMHistoryElement] held by the caller
    rendering,    \* the driver is still building the tree
    ret,          \* the last call of the matcher on snap and its return value
    snap_src,     \* history: node the snapshot was converted from (0: gone)
    changes,      \* history: single-attribute changes of snap_src since the snapshot
    history,      \* AgentHistoryList.history
    query,        \* the last query on the ledger and what it returned or raised
    file,         \* the JSON document of the ledger file: data['history']
    loaded,       \* what the last load_from_file returned or raised
    attrs_a,      \* attribute mapping of the element a snapshot was taken from
    attrs_b,      \* attribute mapping of the element it is compared with
    hash_ret,     \* the hashes of both and the outcome of the comparison
    interacted,   \* the last call of get_interacted_element and its outcome
    current_index,      \* APIKeyManager.current_index
    rate_limited_keys,  \* APIKeyManager.rate_limited_keys
    rate_limited_file,  \* the lines of rate_limited_keys.txt
    lock,               \* APIKeyManager._lock: 0 when free, else the holding thread
    thread,             \* per thread: the call it is in and the call's locals
    last,               \* the last finished get_next_key call and its outcome
    agent               \* the main program of test.py: position, LLM key in use

dom_vars == <<tree, heap, rendering, snap, ret, snap_src, changes>>

ledger_vars == <<history, query>>

load_vars == <<file, loaded>>

hash_vars == <<attrs_a, attrs_b, hash_ret>>

interact_vars == <<interacted>>

key_vars == <<current_index, rate_limited_keys, rate_limited_file, lock, thread, last, agent>>

vars == <<dom_vars, ledger_vars, load_vars, hash_vars, interact_vars, key_vars>>

----------------------------------------------------------------------------
(* Bounds of the model *)

MaxNodes == 3

MaxChanges == 1

(* Inputs the driver may put into a render *)

Tags == {"div", "form"}

AttrVals == {"go", "gotype=go"}

AttrDicts ==
    { <<[k |-> "id", v |-> "gotype=go"]>>,
      <<[k |-> "id", v |-> "go"], [k |-> "type", v |-> "go"]>> }

----------------------------------------------------------------------------
(* The tree model *)

Root == 1

NodeIds == 1..Len(tree)

IsElement(n) == tree[n].kind = "element"

ElementIds == {n \in NodeIds : IsElement(n)}

HighlightCount == Cardinality({n \in ElementIds : tree[n].highlight_index # << >>})

ElementNode(tag, parent, hl, ref) ==
    [kind |-> "element", tag_name |-> tag, parent |-> parent, children |-> << >>,
     highlight_index |-> hl, attributes |-> ref]

TextNode(parent) ==
    [kind |-> "text", tag_name |-> "", parent |-> parent, children |-> << >>,
     highlight_index |-> << >>, attributes |-> 0]

----------------------------------------------------------------------------
(* HistoryTreeProcessor *)

Reverse(s) == [i \in 1..Len(s) |-> s[Len(s) + 1 - i]]

RECURSIVE collect_parents(_, _)
collect_parents(current_element, parents) ==
    IF tree[current_element].parent # 0
    THEN collect_parents(tree[current_element].parent, Append(parents, current_element))
    ELSE parents

_get_parent_branch_path(dom_element) ==
    LET parents == Reverse(collect_parents(dom_element, << >>))
    IN  [i \in 1..Len(parents) |-> tree[parents[i]].tag_name]

RECURSIVE join(_, _)
join(sep, strs) ==
    IF Len(strs) = 0 THEN ""
    ELSE IF Len(strs) = 1 THEN strs[1]
    ELSE strs[1] \o sep \o join(sep, Tail(strs))

sha256(s) == <<"sha256", s>>

_parent_branch_path_hash(parent_branch_path) == sha256(join("/", parent_branch_path))

RECURSIVE attributes_string(_)
attributes_string(items) ==
    IF Len(items) = 0 THEN ""
    ELSE items[1].k \o "=" \o items[1].v \o attributes_string(Tail(items))

(* Variant: the digest is taken over the set of the pairs, whatever their
   order. *)
_attributes_hash_of_pair_set(attributes) ==
    sha256({attributes[i] : i \in 1..Len(attributes)})

_attributes_hash(attributes) == sha256(attributes_string(attributes))

(* Variant: the branch path is left out of the identity. *)
HashedDomElement_attributes_only(bph, ah) ==
    [branch_path_hash |-> sha256(""), attributes_hash |-> ah]

HashedDomElement(bph, ah) == [branch_path_hash |-> bph, attributes_hash |-> ah]

_hash_dom_history_element(dom_history_element) ==
    HashedDomElement(
        _parent_branch_path_hash(dom_history_element.entire_parent_branch_path),
        _attributes_hash(heap[dom_history_element.attributes]))

_hash_dom_element(dom_element) ==
    HashedDomElement(
        _parent_branch_path_hash(_get_parent_branch_path(dom_element)),
        _attributes_hash(heap[tree[dom_element].attributes]))

(* Variant: the path is stored as collected, the node first, not reversed. *)
convert_without_reverse(dom_element) ==
    LET parents == collect_parents(dom_element, << >>)
    IN  [tag_name |-> tree[dom_element].tag_name,
         entire_parent_branch_path |-> [i \in 1..Len(parents) |-> tree[parents[i]].tag_name],
         attributes |-> tree[dom_element].attributes]

convert_dom_element_to_history_element(dom_element) ==
    [tag_name |-> tree[dom_element].tag_name,
     entire_parent_branch_path |-> _get_parent_branch_path(dom_element),
     attributes |-> tree[dom_element].attributes]

RECURSIVE process_node(_, _)
RECURSIVE process_children(_, _, _)
(* Variant: a node is a candidate whether or not it has a highlight index. *)
process_node_any_node(node, hashed_dom_history_element) ==
    IF _hash_dom_element(node) = hashed_dom_history_element
    THEN <<node>>
    ELSE process_children(tree[node].children, 1, hashed_dom_history_element)

process_node(node, hashed_dom_history_element) ==
    IF /\ tree[node].highlight_index # << >>
       /\ _hash_dom_element(node) = hashed_dom_history_element
    THEN <<node>>
    ELSE process_children(tree[node].children, 1, hashed_dom_history_element)

process_children(children, i, hashed_dom_history_element) ==
    IF i > Len(children) THEN << >>
    ELSE IF IsElement(children[i])
    THEN LET result == process_node(children[i], hashed_dom_history_element)
         IN  IF result # << >> THEN result
             ELSE process_children(children, i + 1, hashed_dom_history_element)
    ELSE process_children(children, i + 1, hashed_dom_history_element)

find_history_element_in_tree(dom_history_element, tree_root) ==
    process_node(tree_root, _hash_dom_history_element(dom_history_element))

compare_history_element_and_dom_element(dom_history_element, dom_element) ==
    _hash_dom_history_element(dom_history_element) = _hash_dom_element(dom_element)

----------------------------------------------------------------------------
(* Operations on the DOM state *)

NoCall == [op |-> "none", node |-> 0, value |-> << >>]

(* The reference of the dict a node owns is the node's id; 0 is the slot of a
   dict that only the snapshot still refers to (it is emptied when the caller
   drops that snapshot for a new one: the old dict is garbage). *)
Detached == 0

SnapAttributes == heap[snap[1].attributes]

(* heap and snap after node n stops referring to its dict: a snapshot that
   shares the dict keeps it. *)
HeapAfterDrop(n) ==
    IF snap # << >> /\ snap[1].attributes = n
    THEN [heap EXCEPT ![Detached] = heap[n]]
    ELSE heap

SnapAfterDrop(n) ==
    IF snap # << >> /\ snap[1].attributes = n
    THEN <<[snap[1] EXCEPT !.attributes = Detached]>>
    ELSE snap

EmptyTree == <<ElementNode("root", 0, << >>, 1)>>

DomInit ==
    /\ tree = EmptyTree
    /\ heap = [r \in 0..1 |-> << >>]
    /\ rendering = TRUE
    /\ snap = << >>
    /\ ret = NoCall
    /\ snap_src = 0
    /\ changes = 0

(* The driver adds an element to the render it is building. *)
AppendElement(p, tag, highlighted, attrs) ==
    LET n == Len(tree) + 1
        hl == IF highlighted THEN <<HighlightCount>> ELSE << >>
    IN  /\ rendering
        /\ Len(tree) < MaxNodes
        /\ IsElement(p)
        /\ tree' = Append([tree EXCEPT ![p].children = Append(@, n)],
                          ElementNode(tag, p, hl, n))
        /\ heap' = [r \in 0..n |-> IF r = n THEN attrs ELSE heap[r]]
        /\ UNCHANGED <<rendering, snap, ret, snap_src, changes>>
        /\ UNCHANGED <<ledger_vars, load_vars, hash_vars, interact_vars, key_vars>>

(* The driver adds a text node to the render it is building. *)
AppendText(p) ==
    LET n == Len(tree) + 1
    IN  /\ rendering
        /\ Len(tree) < MaxNodes
        /\ IsElement(p)
        /\ tree' = Append([tree EXCEPT ![p].children = Append(@, n)], TextNode(p))
        /\ heap' = [r \in 0..n |-> IF r = n THEN << >> ELSE heap[r]]
        /\ UNCHANGED <<rendering, snap, ret, snap_src, changes>>
        /\ UNCHANGED <<ledger_vars, load_vars, hash_vars, interact_vars, key_vars>>

(* The driver hands the finished render to the core. *)
FinishRender ==
    /\ rendering
    /\ rendering' = FALSE
    /\ UNCHANGED <<tree, heap, snap, ret, snap_src, changes>>
    /\ UNCHANGED <<ledger_vars, load_vars, hash_vars, interact_vars, key_vars>>

(* A new render: the old tree is discarded and a new one is started. *)
NewRender ==
    /\ ~rendering
    /\ rendering' = TRUE
    /\ tree' = EmptyTree
    /\ heap' = [r \in 0..1 |->
                  IF r = Detached /\ snap # << >> THEN SnapAttributes ELSE << >>]
    /\ snap' = IF snap = << >> THEN snap
               ELSE <<[snap[1] EXCEPT !.attributes = Detached]>>
    /\ ret' = NoCall
    /\ snap_src' = 0
    /\ changes' = 0
    /\ UNCHANGED <<ledger_vars, load_vars, hash_vars, interact_vars, key_vars>>

(* The caller snapshots a live element: once per render, when it acts. *)
Snapshot(n) ==
    /\ ~rendering
    /\ snap_src = 0
    /\ IsElement(n)
    /\ snap' = <<convert_dom_element_to_history_element(n)>>
    /\ heap' = [heap EXCEPT ![Detached] = << >>]
    /\ snap_src' = n
    /\ changes' = 0
    /\ ret' = NoCall
    /\ UNCHANGED <<tree, rendering>>
    /\ UNCHANGED <<ledger_vars, load_vars, hash_vars, interact_vars, key_vars>>

SetItem(attributes, i, value) == [attributes EXCEPT ![i].v = value]

(* element.attributes[key] = value on the snapshotted live element: the dict
   object is updated in place. *)
SetAttribute(i, value) ==
    /\ ~rendering
    /\ snap_src # 0
    /\ changes < MaxChanges
    /\ i \in 1..Len(heap[tree[snap_src].attributes])
    /\ heap[tree[snap_src].attributes][i].v # value
    /\ heap' = [heap EXCEPT ![tree[snap_src].attributes] = SetItem(@, i, value)]
    /\ changes' = changes + 1
    /\ ret' = NoCall
    /\ UNCHANGED <<tree, rendering, snap, snap_src>>
    /\ UNCHANGED <<ledger_vars, load_vars, hash_vars, interact_vars, key_vars>>

(* element.attributes = {**element.attributes, key: value} on the snapshotted
   live element: the element gets a new dict object, the old one stays with
   whoever else refers to it. *)
ReplaceAttributes(i, value) ==
    /\ ~rendering
    /\ snap_src # 0
    /\ changes < MaxChanges
    /\ i \in 1..Len(heap[tree[snap_src].attributes])
    /\ heap[tree[snap_src].attributes][i].v # value
    /\ heap' = [HeapAfterDrop(snap_src) EXCEPT ![snap_src] = SetItem(heap[snap_src], i, value)]
    /\ snap' = SnapAfterDrop(snap_src)
    /\ changes' = changes + 1
    /\ ret' = NoCall
    /\ UNCHANGED <<tree, rendering, snap_src>>
    /\ UNCHANGED <<ledger_vars, load_vars, hash_vars, interact_vars, key_vars>>

(* The caller looks the snapshot up in the current tree. *)
Find ==
    /\ ~rendering
    /\ snap # << >>
    /\ ret' = [op |-> "find", node |-> Root,
               value |-> find_history_element_in_tree(snap[1], Root)]
    /\ UNCHANGED <<tree, heap, rendering, snap, snap_src, changes>>
    /\ UNCHANGED <<ledger_vars, load_vars, hash_vars, interact_vars, key_vars>>

(* The caller re-verifies the live element it took the snapshot from. *)
Compare ==
    /\ ~rendering
    /\ snap_src # 0
    /\ ret' = [op |-> "compare", node |-> snap_src,
               value |-> <<compare_history_element_and_dom_element(snap[1], snap_src)>>]
    /\ UNCHANGED <<tree, heap, rendering, snap, snap_src, changes>>
    /\ UNCHANGED <<ledger_vars, load_vars, hash_vars, interact_vars, key_vars>>

LiveAttributes == IF snap_src = 0 THEN << >> ELSE heap[tree[snap_src].attributes]

DomNext ==
    \/ \E p \in NodeIds, tag \in Tags, highlighted \in BOOLEAN, attrs \in AttrDicts :
          AppendElement(p, tag, highlighted, attrs)
    \/ \E p \in NodeIds : AppendText(p)
    \/ FinishRender
    \/ NewRender
    \/ \E n \in NodeIds : Snapshot(n)
    \/ \E i \in 1..Len(LiveAttributes), value \in AttrVals : SetAttribute(i, value)
    \/ \E i \in 1..Len(LiveAttributes), value \in AttrVals : ReplaceAttributes(i, value)
    \/ Find
    \/ Compare

----------------------------------------------------------------------------
(* AgentHistoryList: the ledger and its queries *)

(* What a raising call leaves behind instead of a return value. *)
Raised(exc) == [st |-> "raised", exc |-> exc, value |-> << >>]

Returned(value) == [st |-> "returned", exc |-> "", value |-> value]

(* Python truthiness of an Optional[str] and of an Optional[bool]. *)
TruthyStr(s) == s # << >> /\ s[1] # ""

TruthyBool(b) == b = <<TRUE>>

RECURSIVE errors(_)
errors(hist) ==
    IF Len(hist) = 0 THEN << >>
    ELSE IF TruthyStr(hist[1].result.error)
    THEN <<hist[1].result.error[1]>> \o errors(Tail(hist))
    ELSE errors(Tail(hist))

(* Variant: true when any entry is done. *)
is_done_any_entry(hist) ==
    \E i \in 1..Len(hist) : TruthyBool(hist[i].result.is_done)

is_done(hist) ==
    IF Len(hist) > 0 /\ TruthyBool(hist[Len(hist)].result.is_done)
    THEN hist[Len(hist)].result.is_done[1]
    ELSE FALSE

RECURSIVE urls(_)
urls(hist) ==
    IF Len(hist) = 0 THEN << >>
    ELSE IF hist[1].state.url # ""
    THEN <<hist[1].state.url>> \o urls(Tail(hist))
    ELSE urls(Tail(hist))

(* model_output.action.model_dump(exclude_none=True) is the dict of the action
   fields that are set; the model keeps its keys, in order. *)
(* Variant: the outputs are collected last entry first. *)
RECURSIVE model_actions_reversed(_)
model_actions_reversed(hist) ==
    IF Len(hist) = 0 THEN << >>
    ELSE IF hist[1].model_output # << >>
    THEN model_actions_reversed(Tail(hist)) \o <<hist[1].model_output[1].action>>
    ELSE model_actions_reversed(Tail(hist))

RECURSIVE model_actions(_)
model_actions(hist) ==
    IF Len(hist) = 0 THEN << >>
    ELSE IF hist[1].model_output # << >>
    THEN <<hist[1].model_output[1].action>> \o model_actions(Tail(hist))
    ELSE model_actions(Tail(hist))

(* list(action.keys())[0] raises IndexError on a dict without keys. *)
action_names(hist) ==
    LET outputs == model_actions(hist)
    IN  IF \E i \in 1..Len(outputs) : Len(outputs[i]) = 0
        THEN Raised("IndexError")
        ELSE Returned([i \in 1..Len(outputs) |-> outputs[i][1]])

----------------------------------------------------------------------------
(* Operations on the ledger *)

MaxHistory == 2

(* The dumps of the decisions the schema admits: a decision carries one
   action of the registry. *)
ActionDumps == {<<"go_to_url">>, <<"click_element">>}

ModelOutputs == {<< >>} \cup {<<[action |-> a]>> : a \in ActionDumps}

ActionResults ==
    [is_done : {<< >>, <<FALSE>>, <<TRUE>>}, error : {<< >>, <<"">>, <<"boom">>}]

BrowserStates == [url : {"", "https://a.test"}]

NoQuery == [op |-> "none", st |-> "returned", exc |-> "", value |-> << >>]

Query(op, r) == [op |-> op, st |-> r.st, exc |-> r.exc, value |-> r.value]

LedgerInit ==
    /\ history = << >>
    /\ query = NoQuery

(* The run loop appends the entry of a step. *)
AppendEntry(model_output, result, state) ==
    /\ Len(history) < MaxHistory
    /\ history' = Append(history,
                         [model_output |-> model_output, result |-> result, state |-> state])
    /\ query' = NoQuery
    /\ UNCHANGED <<dom_vars, load_vars, hash_vars, interact_vars, key_vars>>

CallErrors ==
    /\ query' = Query("errors", Returned(errors(history)))
    /\ UNCHANGED history
    /\ UNCHANGED <<dom_vars, load_vars, hash_vars, interact_vars, key_vars>>

CallIsDone ==
    /\ query' = Query("is_done", Returned(is_done(history)))
    /\ UNCHANGED history
    /\ UNCHANGED <<dom_vars, load_vars, hash_vars, interact_vars, key_vars>>

CallUrls ==
    /\ query' = Query("urls", Returned(urls(history)))
    /\ UNCHANGED history
    /\ UNCHANGED <<dom_vars, load_vars, hash_vars, interact_vars, key_vars>>

CallActionNames ==
    /\ query' = Query("action_names", action_names(history))
    /\ UNCHANGED history
    /\ UNCHANGED <<dom_vars, load_vars, hash_vars, interact_vars, key_vars>>

LedgerNext ==
    \/ \E model_output \in ModelOutputs, result \in ActionResults, state \in BrowserStates :
          AppendEntry(model_output, result, state)
    \/ CallErrors
    \/ CallIsDone
    \/ CallUrls
    \/ CallActionNames

----------------------------------------------------------------------------
(* AgentHistoryList.load_from_file *)

MaxFileEntries == 2

(* Action names that may occur in a ledger file, and the schemas (sets of
   registered action names) a caller may load it with. *)
FileActions == {"go_to_url", "click_element"}

OutputModels == {{"go_to_url", "click_element"}, {"go_to_url"}}

(* h['model_output'] in the JSON document: null, a value that is not an
   object (a string), or an object with its action. *)
JsonModelOutputs ==
    {[t |-> "null", action |-> << >>], [t |-> "str", action |-> << >>]}
        \cup {[t |-> "dict", action |-> <<a>>] : a \in FileActions}

JsonStates ==
    [url : {"https://a.test"}, has_interacted_element : BOOLEAN,
     interacted_element : {<< >>}]
        \cup {[url |-> "https://a.test", has_interacted_element |-> TRUE,
               interacted_element |-> <<"button">>]}

JsonResults == [is_done : {<<FALSE>>}, error : {<< >>, <<"boom">>}]

(* bool(h['model_output']): null is falsy, a non-empty string and a non-empty
   object are truthy. *)
JsonTruthy(mo) == mo.t # "null"

(* output_model.model_validate: pydantic raises ValidationError for a record
   that does not fit the schema. *)
model_validate_ok(mo, output_model) ==
    \A i \in 1..Len(mo.action) : mo.action[i] \in output_model

(* The loop body with the default of interacted_element nested under the
   test of model_output: the key stays missing when model_output is null. *)
load_entry_default_under_model_output(h, output_model) ==
    [model_output |->
        IF JsonTruthy(h.model_output)
        THEN IF h.model_output.t = "dict"
             THEN <<[action |-> h.model_output.action]>>
             ELSE << >>
        ELSE << >>,
     result |-> h.result,
     state |-> [url |-> h.state.url,
                interacted_element |->
                    IF h.state.has_interacted_element
                    THEN h.state.interacted_element
                    ELSE IF JsonTruthy(h.model_output)
                         THEN << >>
                         ELSE <<"key missing">>]]

(* One pass of the loop body over entry h: the entry as it stands when the
   loop moves on. *)
load_entry(h, output_model) ==
    [model_output |->
        IF JsonTruthy(h.model_output)
        THEN IF h.model_output.t = "dict"
             THEN <<[action |-> h.model_output.action]>>
             ELSE << >>
        ELSE << >>,
     result |-> h.result,
     state |-> [url |-> h.state.url,
                interacted_element |->
                    IF h.state.has_interacted_element
                    THEN h.state.interacted_element
                    ELSE << >>]]

(* The loop raises at the first entry whose record fails validation. *)
load_raises(h, output_model) ==
    /\ JsonTruthy(h.model_output)
    /\ h.model_output.t = "dict"
    /\ ~model_validate_ok(h.model_output, output_model)

load_from_file(data, output_model) ==
    IF \E i \in 1..Len(data) : load_raises(data[i], output_model)
    THEN Raised("ValidationError")
    ELSE Returned([i \in 1..Len(data) |-> load_entry(data[i], output_model)])

NotLoaded == [st |-> "not_called", exc |-> "", value |-> << >>, output_model |-> {}]

LoadInit ==
    /\ file = << >>
    /\ loaded = NotLoaded

(* Some run, of this or of an older version, wrote one more entry. *)
WriteEntry(model_output, result, state) ==
    /\ Len(file) < MaxFileEntries
    /\ file' = Append(file,
                      [model_output |-> model_output, result |-> result, state |-> state])
    /\ loaded' = NotLoaded
    /\ UNCHANGED <<dom_vars, ledger_vars, hash_vars, interact_vars, key_vars>>

LoadFromFile(output_model) ==
    /\ Len(file) > 0
    /\ loaded' = [st |-> load_from_file(file, output_model).st,
                  exc |-> load_from_file(file, output_model).exc,
                  value |-> load_from_file(file, output_model).value,
                  output_model |-> output_model]
    /\ UNCHANGED file
    /\ UNCHANGED <<dom_vars, ledger_vars, hash_vars, interact_vars, key_vars>>

RemoveFile ==
    /\ Len(file) > 0
    /\ file' = << >>
    /\ loaded' = NotLoaded
    /\ UNCHANGED <<dom_vars, ledger_vars, hash_vars, interact_vars, key_vars>>

LoadNext ==
    \/ \E model_output \in JsonModelOutputs, result \in JsonResults, state \in JsonStates :
          WriteEntry(model_output, result, state)
    \/ \E output_model \in OutputModels : LoadFromFile(output_model)
    \/ RemoveFile

----------------------------------------------------------------------------
(* Hashing of attribute mappings in different iteration orders *)

MaxPairs == 2

(* Attribute names as an HTML parser yields them ("=" only as a first
   character) and attribute values. *)
HashKeys == {"id", "type", "="}

HashVals == {"", "go", "=id="}

Injective(s) == \A i, j \in 1..Len(s) : s[i] = s[j] => i = j

(* dict[str, str]: the keys of a mapping are distinct. *)
Mappings ==
    UNION {{[i \in 1..n |-> [k |-> ks[i], v |-> vs[i]]] :
               ks \in {s \in [1..n -> HashKeys] : Injective(s)},
               vs \in [1..n -> HashVals]} : n \in 0..MaxPairs}

NotHashed == [op |-> "none", a |-> << >>, b |-> << >>, match |-> << >>]

HashInit ==
    /\ attrs_a = << >>
    /\ attrs_b = << >>
    /\ hash_ret = NotHashed

(* The driver yields two elements with the same attribute pairs. *)
NewMapping(attributes) ==
    /\ attrs_a' = attributes
    /\ attrs_b' = attributes
    /\ hash_ret' = NotHashed
    /\ UNCHANGED <<dom_vars, ledger_vars, load_vars, interact_vars, key_vars>>

(* The other element got the same pairs with items i and i+1 inserted the
   other way round. *)
InsertInOtherOrder(i) ==
    /\ i \in 1..(Len(attrs_b) - 1)
    /\ attrs_b' = [attrs_b EXCEPT ![i] = attrs_b[i + 1], ![i + 1] = attrs_b[i]]
    /\ hash_ret' = NotHashed
    /\ UNCHANGED attrs_a
    /\ UNCHANGED <<dom_vars, ledger_vars, load_vars, interact_vars, key_vars>>

(* compare_history_element_and_dom_element for a snapshot and an element
   under the same ancestor path. *)
compare_with_same_path(parent_branch_path, a, b) ==
    HashedDomElement(_parent_branch_path_hash(parent_branch_path), _attributes_hash(a))
        = HashedDomElement(_parent_branch_path_hash(parent_branch_path), _attributes_hash(b))

HashBoth ==
    /\ hash_ret' = [op |-> "hashed",
                    a |-> <<_attributes_hash(attrs_a)>>,
                    b |-> <<_attributes_hash(attrs_b)>>,
                    match |-> <<compare_with_same_path(<<"div">>, attrs_a, attrs_b)>>]
    /\ UNCHANGED <<attrs_a, attrs_b>>
    /\ UNCHANGED <<dom_vars, ledger_vars, load_vars, interact_vars, key_vars>>

HashNext ==
    \/ \E attributes \in Mappings : NewMapping(attributes)
    \/ \E i \in 1..MaxPairs : InsertInOtherOrder(i)
    \/ HashBoth

----------------------------------------------------------------------------
(* AgentHistory.get_interacted_element *)

(* SelectorMap of the current render: highlight index -> element. *)
selector_map ==
    [i \in {tree[n].highlight_index[1] : n \in {e \in ElementIds : tree[e].highlight_index # << >>}}
        |-> CHOOSE n \in ElementIds : tree[n].highlight_index = <<i>>]

(* model_output.action.get_index(): the target index of the decision's
   action, None for an action without one. *)
ActionIndexes == {<< >>} \cup {<<i>> : i \in 0..MaxNodes}

(* bool(index) of an Optional[int]: None and 0 are falsy. *)
TruthyInt(index) == index # << >> /\ index[1] # 0

get_interacted_element(index, map) ==
    IF TruthyInt(index)
    THEN IF index[1] \in DOMAIN map
         THEN Returned(<<convert_dom_element_to_history_element(map[index[1]])>>)
         ELSE Raised("KeyError")
    ELSE Returned(<< >>)

NotInteracted == [op |-> "none", index |-> << >>, st |-> "returned", exc |-> "", value |-> << >>]

InteractInit == interacted = NotInteracted

GetInteractedElement(index) ==
    /\ ~rendering
    /\ interacted' = [op |-> "get_interacted_element", index |-> index,
                      st |-> get_interacted_element(index, selector_map).st,
                      exc |-> get_interacted_element(index, selector_map).exc,
                      value |-> get_interacted_element(index, selector_map).value]
    /\ UNCHANGED <<dom_vars, ledger_vars, load_vars, hash_vars, key_vars>>

InteractNext ==
    \/ \E p \in NodeIds, tag \in Tags, highlighted \in BOOLEAN, attrs \in AttrDicts :
          AppendElement(p, tag, highlighted, attrs)
    \/ \E p \in NodeIds : AppendText(p)
    \/ FinishRender
    \/ \E index \in ActionIndexes : GetInteractedElement(index)

----------------------------------------------------------------------------
(* APIKeyManager *)

MaxKeys == 3

MaxThreads == 2

(* GITHUB_API_KEYS: a non-empty list; key i stands for its i-th string. *)
api_keys == [i \in 1..MaxKeys |-> i]

Threads == 1..MaxThreads

Idle == [pc |-> "idle", attempts |-> 0, key |-> 0, start_index |-> 0, start_limited |-> {}]

NoKeyCall ==
    [op |-> "none", st |-> "returned", exc |-> "", value |-> 0,
     start_index |-> 0, start_limited |-> {}, index_after |-> 0]

NotStarted == [pc |-> "not_started", exhausted |-> FALSE, llm_key |-> 0]

KeysInit ==
    /\ current_index = 0
    /\ rate_limited_keys = {}
    /\ rate_limited_file = {}
    /\ lock = 0
    /\ thread = [t \in Threads |-> Idle]
    /\ last = NoKeyCall
    /\ agent = NotStarted

(* Variant: the methods run without taking the lock. *)
CanAcquire_without_lock(t) == TRUE

(* with self._lock: a thread enters when the lock is free. *)
CanAcquire(t) == lock = 0

Released(t) == IF lock = t THEN 0 ELSE lock

(* get_next_key: with self._lock; attempts = 0 *)
GetAcquire(t) ==
    /\ thread[t].pc = "idle"
    /\ CanAcquire(t)
    /\ lock' = t
    /\ thread' = [thread EXCEPT ![t] =
                     [pc |-> "get_next_key", attempts |-> 0, key |-> 0,
                      start_index |-> current_index,
                      start_limited |-> rate_limited_keys]]
    /\ UNCHANGED <<current_index, rate_limited_keys, rate_limited_file, last, agent>>
    /\ UNCHANGED <<dom_vars, ledger_vars, load_vars, hash_vars, interact_vars>>

(* get_next_key: one test of the while condition and, if it holds, one pass
   of the loop body; else the raise. *)
GetLoop(t) ==
    /\ thread[t].pc = "get_next_key"
    /\ IF thread[t].attempts < Len(api_keys)
       THEN LET key == api_keys[current_index + 1]
                next_index == (current_index + 1) % Len(api_keys)
            IN  /\ current_index' = next_index
                /\ IF key \notin rate_limited_keys
                   THEN /\ last' = [op |-> "get_next_key", st |-> "returned", exc |-> "",
                                    value |-> key,
                                    start_index |-> thread[t].start_index,
                                    start_limited |-> thread[t].start_limited,
                                    index_after |-> next_index]
                        /\ thread' = [thread EXCEPT ![t] = Idle]
                        /\ lock' = Released(t)
                   ELSE /\ thread' = [thread EXCEPT ![t].attempts = @ + 1]
                        /\ UNCHANGED <<last, lock>>
       ELSE /\ last' = [op |-> "get_next_key", st |-> "raised",
                        exc |-> "All API keys are rate-limited", value |-> 0,
                        start_index |-> thread[t].start_index,
                        start_limited |-> thread[t].start_limited,
                        index_after |-> current_index]
            /\ thread' = [thread EXCEPT ![t] = Idle]
            /\ lock' = Released(t)
            /\ UNCHANGED current_index
    /\ UNCHANGED <<rate_limited_keys, rate_limited_file, agent>>
    /\ UNCHANGED <<dom_vars, ledger_vars, load_vars, hash_vars, interact_vars>>

(* mark_key_rate_limited(key): with self._lock *)
MarkAcquire(t, key) ==
    /\ thread[t].pc = "idle"
    /\ CanAcquire(t)
    /\ lock' = t
    /\ thread' = [thread EXCEPT ![t] = [Idle EXCEPT !.pc = "mark_key_rate_limited",
                                                    !.key = key]]
    /\ UNCHANGED <<current_index, rate_limited_keys, rate_limited_file, last, agent>>
    /\ UNCHANGED <<dom_vars, ledger_vars, load_vars, hash_vars, interact_vars>>

(* mark_key_rate_limited: the body under the lock, then the release. *)
MarkBody(t) ==
    /\ thread[t].pc = "mark_key_rate_limited"
    /\ rate_limited_keys' = rate_limited_keys \cup {thread[t].key}
    /\ rate_limited_file' = rate_limited_file \cup {thread[t].key}
    /\ thread' = [thread EXCEPT ![t] = Idle]
    /\ lock' = Released(t)
    /\ UNCHANGED <<current_index, last, agent>>
    /\ UNCHANGED <<dom_vars, ledger_vars, load_vars, hash_vars, interact_vars>>

KeysNext ==
    \/ \E t \in Threads : GetAcquire(t)
    \/ \E t \in Threads : GetLoop(t)
    \/ \E t \in Threads, key \in 1..MaxKeys : MarkAcquire(t, key)
    \/ \E t \in Threads : MarkBody(t)

----------------------------------------------------------------------------
(* The main program of test.py: Agent.run and its retry loop *)

(* get_next_key run to its end by one thread: the while loop from the given
   index and number of attempts. *)
RECURSIVE get_next_key_loop(_, _, _)
get_next_key_loop(index, attempts, limited) ==
    IF attempts < Len(api_keys)
    THEN IF api_keys[index + 1] \notin limited
         THEN [st |-> "returned", exc |-> "", value |-> api_keys[index + 1],
               index_after |-> (index + 1) % Len(api_keys)]
         ELSE get_next_key_loop((index + 1) % Len(api_keys), attempts + 1, limited)
    ELSE [st |-> "raised", exc |-> "All API keys are rate-limited", value |-> 0,
          index_after |-> index]

get_next_key(index, limited) == get_next_key_loop(index, 0, limited)

KeyCall(r, index, limited) ==
    [op |-> "get_next_key", st |-> r.st, exc |-> r.exc, value |-> r.value,
     start_index |-> index, start_limited |-> limited, index_after |-> r.index_after]

(* A line of rate_limited_keys.txt that is none of the configured keys. *)
StaleKey == Len(api_keys) + 1

FileLines == SUBSET ({api_keys[i] : i \in 1..Len(api_keys)} \cup {StaleKey})

(* The process starts: api_key_manager = APIKeyManager() reads the keys that
   earlier processes left in rate_limited_keys.txt. exhausted: the provider
   answers every request of this process with a rate-limit error. *)
StartProcess(lines, exhausted) ==
    /\ agent.pc = "not_started"
    /\ rate_limited_file' = lines
    /\ rate_limited_keys' = lines
    /\ current_index' = 0
    /\ agent' = [pc |-> "main_get_key", exhausted |-> exhausted, llm_key |-> 0]
    /\ last' = NoKeyCall
    /\ UNCHANGED <<lock, thread>>
    /\ UNCHANGED <<dom_vars, ledger_vars, load_vars, hash_vars, interact_vars>>

(* The agent takes the key of its next LLM instance; an exception of
   get_next_key leaves run() and main(). *)
TakeKey ==
    LET r == get_next_key(current_index, rate_limited_keys)
    IN  /\ CanAcquire(1)
        /\ current_index' = r.index_after
        /\ last' = KeyCall(r, current_index, rate_limited_keys)
        /\ agent' = IF r.st = "returned"
                    THEN [agent EXCEPT !.pc = "run", !.llm_key = r.value]
                    ELSE [agent EXCEPT !.pc = "failed"]
        /\ UNCHANGED <<rate_limited_keys, rate_limited_file, lock, thread>>
        /\ UNCHANGED <<dom_vars, ledger_vars, load_vars, hash_vars, interact_vars>>

(* main(): ChatOpenAI(api_key=api_key_manager.get_next_key()) *)
MainGetKey ==
    /\ agent.pc = "main_get_key"
    /\ TakeKey

(* super().run(max_steps) returns (or fails with another error): run() is
   left. *)
BaseRunEnds ==
    /\ agent.pc = "run"
    /\ ~agent.exhausted
    /\ agent' = [agent EXCEPT !.pc = "done"]
    /\ UNCHANGED <<current_index, rate_limited_keys, rate_limited_file, lock, thread, last>>
    /\ UNCHANGED <<dom_vars, ledger_vars, load_vars, hash_vars, interact_vars>>

(* super().run(max_steps) raises RateLimitError: the handler is entered. *)
BaseRunRateLimited ==
    /\ agent.pc = "run"
    /\ agent' = [agent EXCEPT !.pc = "rate_limited"]
    /\ UNCHANGED <<current_index, rate_limited_keys, rate_limited_file, lock, thread, last>>
    /\ UNCHANGED <<dom_vars, ledger_vars, load_vars, hash_vars, interact_vars>>

(* except RateLimitError: self.llm = ChatOpenAI(api_key=get_next_key()), then
   the next pass of while True. *)
RetryGetKey ==
    /\ agent.pc = "rate_limited"
    /\ TakeKey

RetryNext ==
    \/ \E lines \in FileLines, exhausted \in BOOLEAN :
          StartProcess(lines, exhausted)
    \/ MainGetKey
    \/ BaseRunEnds
    \/ BaseRunRateLimited
    \/ RetryGetKey

(* The main thread keeps running: a step it can take is taken. *)
RetryFairness ==
    /\ WF_vars(MainGetKey)
    /\ WF_vars(BaseRunEnds)
    /\ WF_vars(BaseRunRateLimited)
    /\ WF_vars(RetryGetKey)

----------------------------------------------------------------------------
(* Properties of the matcher *)

Highlighted(n) == IsElement(n) /\ tree[n].highlight_index # << >>

(* Document order: depth-first, pre-order, children left to right. *)
RECURSIVE PreOrder(_)
RECURSIVE PreOrderOfAll(_, _)
PreOrder(n) == <<n>> \o PreOrderOfAll(tree[n].children, 1)

PreOrderOfAll(children, i) ==
    IF i > Len(children) THEN << >>
    ELSE PreOrder(children[i]) \o PreOrderOfAll(children, i + 1)

DocumentOrder == PreOrder(Root)

PositionOf(n) == CHOOSE i \in 1..Len(DocumentOrder) : DocumentOrder[i] = n

(* The proper ancestors of n, the root first and the parent of n last. *)
RECURSIVE ProperAncestors(_)
ProperAncestors(n) ==
    IF tree[n].parent = 0 THEN << >>
    ELSE Append(ProperAncestors(tree[n].parent), tree[n].parent)

AncestorTags(n) == [i \in 1..Len(ProperAncestors(n)) |-> tree[ProperAncestors(n)[i]].tag_name]

SameHashes(a, b) == _hash_dom_element(a) = _hash_dom_element(b)

MatchesSnapshot(n) == _hash_dom_element(n) = _hash_dom_history_element(snap[1])

(* A highlighted element before n in document order with the hashes of n. *)
EarlierTwin(n) ==
    \E m \in ElementIds :
        Highlighted(m) /\ PositionOf(m) < PositionOf(n) /\ SameHashes(m, n)

(* find ran on the snapshot of a node of the tree it was taken from, and the
   tree has not changed since. *)
FoundInSameRender == ret.op = "find" /\ snap_src # 0 /\ changes = 0

(* C1, as stated: for any element node n, looking the snapshot of n up in the
   tree of n (same tree, same render) returns n itself. *)
C1_RoundTripAnyNode == FoundInSameRender => ret.value = <<snap_src>>

(* C1, amended: for any element node n with a highlight index, looking the
   snapshot of n up in the tree of n (same tree, same render) returns a
   highlighted node with the hashes of n, never none; it returns n itself
   when no highlighted node before n in document order has the hashes of n. *)
C1_RoundTrip ==
    (FoundInSameRender /\ Highlighted(snap_src)) =>
        /\ ret.value # << >>
        /\ Highlighted(ret.value[1])
        /\ SameHashes(ret.value[1], snap_src)
        /\ (~EarlierTwin(snap_src) => ret.value = <<snap_src>>)

C1_Witness ==
    /\ FoundInSameRender
    /\ Highlighted(snap_src)
    /\ ret.value = <<snap_src>>
    /\ \E m \in ElementIds : m # snap_src /\ Highlighted(m) /\ SameHashes(m, snap_src)

(* C2: the ancestor path of a node is the sequence of the tag names of its
   proper ancestors, from the tag of the tree root to the tag of its parent,
   without the tag of the node itself. *)
C2_AncestorPath ==
    \A n \in ElementIds : _get_parent_branch_path(n) = AncestorTags(n)

(* C4: find considers only highlighted nodes and returns the first of them,
   in document order, whose hashes equal the snapshot's: the node returned is
   highlighted, has the snapshot's hashes, no highlighted node with these
   hashes comes before it, and such a node is returned whenever one exists. *)
C4_FirstHighlightedMatch ==
    ret.op = "find" =>
        /\ ret.value # << >> =>
              /\ Highlighted(ret.value[1])
              /\ MatchesSnapshot(ret.value[1])
              /\ \A m \in ElementIds :
                    (Highlighted(m) /\ MatchesSnapshot(m))
                        => PositionOf(ret.value[1]) <= PositionOf(m)
        /\ (\E m \in ElementIds : Highlighted(m) /\ MatchesSnapshot(m))
              => ret.value # << >>

(* find passed over an element with the snapshot's hashes that is not
   highlighted, and returned a later, highlighted one. *)
C4_Witness ==
    /\ ret.op = "find"
    /\ ret.value # << >>
    /\ \E m \in ElementIds :
          /\ ~Highlighted(m)
          /\ MatchesSnapshot(m)
          /\ PositionOf(m) < PositionOf(ret.value[1])

SharesBothHashes(n) ==
    /\ sha256(join("/", _get_parent_branch_path(n)))
          = sha256(join("/", snap[1].entire_parent_branch_path))
    /\ sha256(attributes_string(heap[tree[n].attributes]))
          = sha256(attributes_string(SnapAttributes))

(* C5: when no highlighted element of the tree shares both the branch-path
   hash and the attributes hash with the snapshot, find returns none. *)
C5_Absence ==
    (ret.op = "find" /\ ~\E n \in ElementIds : Highlighted(n) /\ SharesBothHashes(n))
        => ret.value = << >>

(* The snapshot is of an earlier render; the tree holds a highlighted element
   with the snapshot's attributes under another ancestor path, and find
   returned none. *)
C5_Witness ==
    /\ ret.op = "find"
    /\ ret.value = << >>
    /\ snap_src = 0
    /\ \E n \in ElementIds :
          /\ Highlighted(n)
          /\ attributes_string(heap[tree[n].attributes]) = attributes_string(SnapAttributes)
          /\ _get_parent_branch_path(n) # snap[1].entire_parent_branch_path

(* C6: after a snapshot of an element was taken, changing the value of one
   attribute of that element makes the comparison of the snapshot with the
   element return false. *)
C6_Sensitivity == (ret.op = "compare" /\ changes = 1) => ret.value = <<FALSE>>

(* C7: once a snapshot is created, no change of the live element's attributes
   and no new render changes the snapshot's attributes: every step that does
   not take a new snapshot leaves them as they were. *)
C7_SnapshotImmutable ==
    [][(snap # << >> /\ ~(snap_src = 0 /\ snap_src' # 0))
          => (snap' # << >> /\ SnapAttributes' = SnapAttributes)]_vars

----------------------------------------------------------------------------
(* Properties of the ledger *)

Project(hist, Keep(_), Field(_)) ==
    LET kept == SelectSeq(hist, Keep)
    IN  [i \in 1..Len(kept) |-> Field(kept[i])]

HasError(h) == h.result.error # << >>

ErrorOf(h) == h.result.error[1]

HasModelOutput(h) == h.model_output # << >>

ActionNameOf(h) == h.model_output[1].action[1]

HasUrl(h) == h.state.url # ""

UrlOf(h) == h.state.url

(* C8: errors() returns the result.error of every entry whose error is not
   none, an empty string included, in entry order. *)
C8_Errors == query.op = "errors" => query.value = Project(history, HasError, ErrorOf)

(* C9: is_done() is true if and only if the ledger is not empty and the
   result of its last entry has is_done true. *)
C9_IsDone ==
    query.op = "is_done" =>
        query.value = (Len(history) > 0 /\ history[Len(history)].result.is_done = <<TRUE>>)

(* is_done() answered false for a ledger whose first entry is done and whose
   last entry is not. *)
C9_Witness ==
    /\ query.op = "is_done"
    /\ query.value = FALSE
    /\ Len(history) >= 2
    /\ history[1].result.is_done = <<TRUE>>

(* C10: action_names() returns, without failing, one action name for every
   entry that has a model_output, in entry order, and nothing for the other
   entries; urls() returns the url of every entry that has one, in entry
   order. *)
C10_Projections ==
    /\ query.op = "action_names" =>
          /\ query.st = "returned"
          /\ query.value = Project(history, HasModelOutput, ActionNameOf)
    /\ query.op = "urls" =>
          /\ query.st = "returned"
          /\ query.value = Project(history, HasUrl, UrlOf)

(* action_names() skipped an entry without model_output and returned the
   names of the other entries. *)
C10_Witness ==
    /\ query.op = "action_names"
    /\ Len(history) >= 2
    /\ \E i \in 1..Len(history) : history[i].model_output = << >>
    /\ Len(query.value) >= 1

----------------------------------------------------------------------------
(* Properties of load_from_file *)

Unmatched(h, output_model) ==
    /\ h.model_output.t = "dict"
    /\ \E i \in 1..Len(h.model_output.action) : h.model_output.action[i] \notin output_model

(* C3: loading a ledger in which the model_output of some entry is a record
   that matches no action of the schema succeeds: that entry is loaded with
   model_output none and its result and state intact, every other entry is
   loaded as it is. *)
C3_UnmatchedDegrades ==
    (/\ loaded.st # "not_called"
     /\ \E i \in 1..Len(file) : Unmatched(file[i], loaded.output_model))
        => /\ loaded.st = "returned"
           /\ Len(loaded.value) = Len(file)
           /\ \A i \in 1..Len(file) :
                 /\ loaded.value[i].result = file[i].result
                 /\ loaded.value[i].state.url = file[i].state.url
                 /\ Unmatched(file[i], loaded.output_model)
                       => loaded.value[i].model_output = << >>
                 /\ (file[i].model_output.t = "dict"
                       /\ ~Unmatched(file[i], loaded.output_model))
                       => loaded.value[i].model_output
                             = <<[action |-> file[i].model_output.action]>>

MissingKey(h) == ~h.state.has_interacted_element

(* C11: loading a ledger file tolerates an entry whose state has no
   interacted_element key, whether its model_output is null or a record: the
   missing key never makes the load fail (the load fails only on a record that
   does not validate), and in the loaded ledger that entry has
   interacted_element none, while a key that is present keeps its value. *)
C11_MissingKeyTolerated ==
    loaded.st # "not_called" =>
        /\ loaded.st = "raised" =>
              \E i \in 1..Len(file) : Unmatched(file[i], loaded.output_model)
        /\ loaded.st = "returned" =>
              /\ Len(loaded.value) = Len(file)
              /\ \A i \in 1..Len(file) :
                    loaded.value[i].state.interacted_element
                        = IF MissingKey(file[i])
                          THEN << >>
                          ELSE file[i].state.interacted_element

(* A load returned for a file in which one entry without the key has a null
   model_output and another entry without the key has a record. *)
C11_Witness ==
    /\ loaded.st = "returned"
    /\ \E i, j \in 1..Len(file) :
          /\ MissingKey(file[i]) /\ file[i].model_output.t = "null"
          /\ MissingKey(file[j]) /\ file[j].model_output.t = "dict"
          /\ loaded.value[i].state.interacted_element = << >>
          /\ loaded.value[j].state.interacted_element = << >>

----------------------------------------------------------------------------
(* Properties of attribute hashing *)

PairsOf(attributes) == {attributes[i] : i \in 1..Len(attributes)}

(* C12: for two attribute mappings with the same key/value pairs (at least
   two) in different iteration orders, _attributes_hash is computed over
   different strings, the two hashes differ, and a snapshot with one order
   does not match an element with the other. *)
C12_OrderDependent ==
    (/\ hash_ret.op = "hashed"
     /\ PairsOf(attrs_a) = PairsOf(attrs_b)
     /\ Len(attrs_a) >= 2
     /\ attrs_a # attrs_b)
        => /\ attributes_string(attrs_a) # attributes_string(attrs_b)
           /\ hash_ret.a # hash_ret.b
           /\ hash_ret.match = <<FALSE>>

(* Two mappings with the same two pairs in opposite orders, one value holding
   an "=", were hashed and did not match. *)
C12_Witness ==
    /\ hash_ret.op = "hashed"
    /\ Len(attrs_a) >= 2
    /\ PairsOf(attrs_a) = PairsOf(attrs_b)
    /\ attrs_a # attrs_b
    /\ \E i \in 1..Len(attrs_a) : attrs_a[i].v = "=id="
    /\ hash_ret.match = <<FALSE>>

----------------------------------------------------------------------------
(* Properties of get_interacted_element *)

(* C13: for a decision whose action targets a highlight index i, 0 included,
   that is a key of the selector map, get_interacted_element returns the
   snapshot of selector_map[i]; it returns none only when the action has no
   target index. *)
C13_InteractedElement ==
    (/\ interacted.op = "get_interacted_element"
     /\ (interacted.index = << >> \/ interacted.index[1] \in DOMAIN selector_map))
        => /\ interacted.st = "returned"
           /\ interacted.value
                = IF interacted.index = << >>
                  THEN << >>
                  ELSE <<convert_dom_element_to_history_element(
                             selector_map[interacted.index[1]])>>

----------------------------------------------------------------------------
(* Properties of APIKeyManager *)

KeyAt(index) == api_keys[(index % Len(api_keys)) + 1]

AllLimited(limited) == \A i \in 1..Len(api_keys) : api_keys[i] \in limited

(* Distance from index to the first key, in cyclic order, that is not
   limited. *)
FirstFree(index, limited) ==
    CHOOSE d \in 0..(Len(api_keys) - 1) :
        /\ KeyAt(index + d) \notin limited
        /\ \A e \in 0..(d - 1) : KeyAt(index + e) \in limited

(* C14: under every interleaving of get_next_key and mark_key_rate_limited
   calls of several threads, a get_next_key call is atomic (while it runs it
   holds the lock, no other call is in progress, and the key set and the index
   are as it left them); it returns the first key, in cyclic order from
   current_index, that is not rate-limited, and leaves current_index just past
   that key, within 0..len(api_keys)-1; it raises 'All API keys are
   rate-limited' exactly when every key is rate-limited, and then
   current_index is as before the call. *)
C14_GetNextKeyAtomic ==
    /\ current_index \in 0..(Len(api_keys) - 1)
    /\ \A t \in Threads :
          thread[t].pc # "idle" =>
              /\ lock = t
              /\ \A u \in Threads \ {t} : thread[u].pc = "idle"
              /\ rate_limited_keys = thread[t].start_limited
                    \/ thread[t].pc # "get_next_key"
              /\ current_index = (thread[t].start_index + thread[t].attempts) % Len(api_keys)
                    \/ thread[t].pc # "get_next_key"
    /\ last.op = "get_next_key" =>
          IF AllLimited(last.start_limited)
          THEN /\ last.st = "raised"
               /\ last.exc = "All API keys are rate-limited"
               /\ last.index_after = last.start_index
          ELSE LET d == FirstFree(last.start_index, last.start_limited)
               IN  /\ last.st = "returned"
                   /\ last.value = KeyAt(last.start_index + d)
                   /\ last.index_after = (last.start_index + d + 1) % Len(api_keys)

(* A call skipped a rate-limited key, returned the last key of the list and
   left current_index at 0, while another thread has since marked a key. *)
C14_Witness ==
    /\ last.op = "get_next_key"
    /\ last.st = "returned"
    /\ last.start_limited # {}
    /\ last.value # KeyAt(last.start_index)
    /\ last.value = api_keys[Len(api_keys)]
    /\ last.index_after = 0
    /\ rate_limited_keys # last.start_limited

----------------------------------------------------------------------------
(* Properties of the retry loop *)

(* C15: the retry loop of Agent.run terminates: when every attempt of the
   underlying run raises RateLimitError, the loop eventually stops with the
   'All API keys are rate-limited' exception of get_next_key. *)
C15_RetryTerminates ==
    (agent.exhausted /\ agent.pc = "run")
        ~> (agent.pc = "failed" /\ last.exc = "All API keys are rate-limited")

----------------------------------------------------------------------------
(* Specifications *)

Init == DomInit /\ LedgerInit /\ LoadInit /\ HashInit /\ InteractInit /\ KeysInit

SpecDom == Init /\ [][DomNext]_vars

SpecLedger == Init /\ [][LedgerNext]_vars

SpecLoad == Init /\ [][LoadNext]_vars

SpecHash == Init /\ [][HashNext]_vars

SpecInteract == Init /\ [][InteractNext]_vars

SpecKeys == Init /\ [][KeysNext]_vars

SpecRetry == Init /\ [][RetryNext]_vars /\ RetryFairness

====
